---- MODULE Spec2Model ----
(***************************************************************************)
(* external-dns-kubevirt: the VirtualMachineInstance reconciler.           *)
(*                                                                         *)
(* The module models internal/controller/vmi_controller.go: the address    *)
(* extraction from status.interfaces, the annotation parsers, the record   *)
(* builder and the Reconcile pass against the API server.  Strings are     *)
(* TLA+ strings, taken apart character by character with Len and SubSeq.   *)
(***************************************************************************)
EXTENDS Integers, Sequences, FiniteSets, TLC

(***************************************************************************)
(* Constants of the controller.                                            *)
(***************************************************************************)
annotationHostname == "external-dns.alpha.kubernetes.io/hostname"
annotationTTL == "external-dns.alpha.kubernetes.io/ttl"
defaultTTL == 300
multusInfoSource == "multus-status"
guestAgentInfoSource == "guest-agent"

(***************************************************************************)
(* Strings.                                                                *)
(***************************************************************************)
At(s, i) == SubSeq(s, i, i)

From(s, i) == SubSeq(s, i, Len(s))

IsSpace(c) == c \in {" ", "\t", "\n", "\r"}

\* first index of character c in s at or after position i, 0 when there is none
RECURSIVE IndexFrom(_, _, _)
IndexFrom(s, c, i) ==
    IF i > Len(s) THEN 0
    ELSE IF At(s, i) = c THEN i
    ELSE IndexFrom(s, c, i + 1)

IndexOf(s, c) == IndexFrom(s, c, 1)

RECURSIVE TrimLeft(_)
TrimLeft(s) == IF Len(s) > 0 /\ IsSpace(At(s, 1)) THEN TrimLeft(From(s, 2)) ELSE s

RECURSIVE TrimRight(_)
TrimRight(s) ==
    IF Len(s) > 0 /\ IsSpace(At(s, Len(s))) THEN TrimRight(SubSeq(s, 1, Len(s) - 1))
    ELSE s

\* strings.TrimSpace
TrimSpace(s) == TrimRight(TrimLeft(s))

\* strings.Split(s, sep) for a one-character separator: always at least one field
RECURSIVE Split(_, _)
Split(s, sep) ==
    LET k == IndexOf(s, sep)
    IN  IF k = 0 THEN <<s>>
        ELSE <<SubSeq(s, 1, k - 1)>> \o Split(From(s, k + 1), sep)

DecDigits == {"0", "1", "2", "3", "4", "5", "6", "7", "8", "9"}

HexValues ==
    [c \in DecDigits \cup {"a", "b", "c", "d", "e", "f", "A", "B", "C", "D", "E", "F"} |->
        CASE c = "0" -> 0 [] c = "1" -> 1 [] c = "2" -> 2 [] c = "3" -> 3
          [] c = "4" -> 4 [] c = "5" -> 5 [] c = "6" -> 6 [] c = "7" -> 7
          [] c = "8" -> 8 [] c = "9" -> 9
          [] c \in {"a", "A"} -> 10 [] c \in {"b", "B"} -> 11
          [] c \in {"c", "C"} -> 12 [] c \in {"d", "D"} -> 13
          [] c \in {"e", "E"} -> 14 [] c \in {"f", "F"} -> 15]

IsDigit(c) == c \in DecDigits
DigitVal(c) == HexValues[c]

IsHex(c) == c \in DOMAIN HexValues
HexVal(c) == HexValues[c]

(***************************************************************************)
(* net.ParseIP.  An address is its 16-byte form (IPv4 is stored            *)
(* v4-in-v6 mapped, as net.ParseIP returns it); NoIP is the nil result.    *)
(***************************************************************************)
NoIP == <<>>

\* one dotted field: digits only, no leading zero, at most 255; -1 when invalid
OctetVal(f) ==
    IF Len(f) = 0 \/ Len(f) > 3 THEN -1
    ELSE IF \E i \in 1..Len(f) : ~IsDigit(At(f, i)) THEN -1
    ELSE IF Len(f) > 1 /\ At(f, 1) = "0" THEN -1
    ELSE LET v == IF Len(f) = 1 THEN DigitVal(At(f, 1))
                  ELSE IF Len(f) = 2 THEN 10 * DigitVal(At(f, 1)) + DigitVal(At(f, 2))
                  ELSE 100 * DigitVal(At(f, 1)) + 10 * DigitVal(At(f, 2))
                       + DigitVal(At(f, 3))
         IN  IF v > 255 THEN -1 ELSE v

\* the four bytes of a dotted-decimal address, <<>> when it does not parse
octets(f) ==
    IF Len(f) # 4 THEN <<>>
    ELSE IF \E i \in 1..4 : OctetVal(f[i]) < 0 THEN <<>>
    ELSE [i \in 1..4 |-> OctetVal(f[i])]

parseIPv4Fields(s) == octets(Split(s, "."))

v4InV6Prefix == <<0, 0, 0, 0, 0, 0, 0, 0, 0, 0, 255, 255>>

v4Mapped(b) == IF b = <<>> THEN NoIP ELSE v4InV6Prefix \o b

parseIPv4(s) == v4Mapped(parseIPv4Fields(s))

\* number of leading hexadecimal digits of s
RECURSIVE HexRun(_)
HexRun(s) == IF Len(s) > 0 /\ IsHex(At(s, 1)) THEN 1 + HexRun(From(s, 2)) ELSE 0

RECURSIVE HexAcc(_)
HexAcc(s) == IF Len(s) = 0 THEN 0
             ELSE 16 * HexAcc(SubSeq(s, 1, Len(s) - 1)) + HexVal(At(s, Len(s)))

Zeros(n) == [i \in 1..n |-> 0]

\* the tail of parseIPv6: what is left of the string, the bytes read and the
\* position of the "::", after the loop over the groups
v6Finish(s, ip, ellipsis) ==
    IF Len(s) # 0 THEN NoIP
    ELSE IF Len(ip) < 16
         THEN IF ellipsis < 0 THEN NoIP
              ELSE SubSeq(ip, 1, ellipsis) \o Zeros(16 - Len(ip))
                   \o SubSeq(ip, ellipsis + 1, Len(ip))
         ELSE IF ellipsis >= 0 THEN NoIP ELSE ip

RECURSIVE v6Loop(_, _, _)

\* after a group and its colon: s is what follows the colon
v6AfterColon(s, ip, ellipsis) ==
    IF At(s, 1) = ":"
    THEN IF ellipsis >= 0 THEN NoIP
         ELSE IF Len(s) = 1 THEN v6Finish("", ip, Len(ip))
         ELSE v6Loop(From(s, 2), ip, Len(ip))
    ELSE v6Loop(s, ip, ellipsis)

\* after a group: s is what follows its digits
v6AfterGroup(s, ip, ellipsis) ==
    IF Len(s) = 0 THEN v6Finish(s, ip, ellipsis)
    ELSE IF At(s, 1) # ":" THEN NoIP
    ELSE IF Len(s) = 1 THEN NoIP
    ELSE v6AfterColon(From(s, 2), ip, ellipsis)

\* an embedded IPv4 address in the last four bytes, b its parsed fields
v6Embedded(ip, ellipsis, b) ==
    IF ellipsis < 0 /\ Len(ip) # 12 THEN NoIP
    ELSE IF Len(ip) + 4 > 16 THEN NoIP
    ELSE IF b = <<>> THEN NoIP
    ELSE v6Finish("", ip \o b, ellipsis)

\* one group: off is the number of hexadecimal digits s starts with, acc their value
v6Group(s, ip, ellipsis, off, acc) ==
    IF off > 4 \/ off = 0 THEN NoIP
    ELSE IF off < Len(s) /\ At(s, off + 1) = "."
         THEN v6Embedded(ip, ellipsis, parseIPv4Fields(s))
    ELSE v6AfterGroup(From(s, off + 1), ip \o <<acc \div 256, acc % 256>>, ellipsis)

HexPrefixVal(s, off) == IF off > 4 THEN 0 ELSE HexAcc(SubSeq(s, 1, off))

v6GroupAt(s, ip, ellipsis, off) == v6Group(s, ip, ellipsis, off, HexPrefixVal(s, off))

\* the loop of parseIPv6 over the colon-separated groups
v6Loop(s, ip, ellipsis) ==
    IF Len(ip) >= 16 THEN v6Finish(s, ip, ellipsis)
    ELSE v6GroupAt(s, ip, ellipsis, HexRun(s))

parseIPv6(s) ==
    IF IndexOf(s, "%") # 0 THEN NoIP   \* a zone: net.ParseIP rejects it
    ELSE IF Len(s) >= 2 /\ SubSeq(s, 1, 2) = "::"
         THEN IF Len(s) = 2 THEN Zeros(16)
              ELSE v6Loop(From(s, 3), <<>>, 0)
         ELSE v6Loop(s, <<>>, -1)

RECURSIVE FirstMark(_, _)
FirstMark(s, i) ==
    IF i > Len(s) THEN 0
    ELSE IF At(s, i) \in {".", ":", "%"} THEN i
    ELSE FirstMark(s, i + 1)

\* net.ParseIP: the first of '.', ':' and '%' in the string decides the parser
parseByMark(s, k) ==
    IF k = 0 THEN NoIP
    ELSE IF At(s, k) = "." THEN parseIPv4(s)
    ELSE IF At(s, k) = ":" THEN parseIPv6(s)
    ELSE NoIP

ParseIP(s) == parseByMark(s, FirstMark(s, 1))

\* IP.To4: the four bytes of an IPv4 (or v4-in-v6 mapped) address, <<>> otherwise
To4(ip) ==
    IF Len(ip) = 16 /\ SubSeq(ip, 1, 12) = v4InV6Prefix THEN SubSeq(ip, 13, 16)
    ELSE <<>>

\* IP.To16
To16(ip) == IF Len(ip) = 16 THEN ip ELSE <<>>

\* IP.IsLinkLocalUnicast: 169.254.0.0/16 or fe80::/10
linkLocal(ip, ip4) ==
    IF ip4 # <<>> THEN ip4[1] = 169 /\ ip4[2] = 254
    ELSE Len(ip) = 16 /\ ip[1] = 254 /\ (ip[2] \div 64) = 2

IsLinkLocalUnicast(ip) == linkLocal(ip, To4(ip))

(***************************************************************************)
(* Interface reports (status.interfaces[]): infoSource, IP (the primary    *)
(* address) and IPs (the full address list).                               *)
(***************************************************************************)
Iface(src, primary, all) == [infoSource |-> src, ip |-> primary, ips |-> all]

\* strings.Contains
Contains(s, sub) ==
    \E i \in 1..(Len(s) - Len(sub) + 1) : SubSeq(s, i, i + Len(sub) - 1) = sub

\* containsInfoSource as a substring test
containsInfoSourceSubstring(infoSource, source) == Contains(infoSource, source)

\* containsInfoSource: an exact match of one comma-separated, trimmed token
hasPart(parts, source) == \E k \in 1..Len(parts) : TrimSpace(parts[k]) = source

containsInfoSource(infoSource, source) == hasPart(Split(infoSource, ","), source)

NoAddrs == [ipv4 |-> <<>>, ipv6 |-> <<>>]

\* gaPut without the link-local test
gaPutKeepLinkLocal(acc, addr, ip) ==
    IF addr = "" THEN acc
    ELSE IF ip = NoIP THEN acc
    ELSE IF To4(ip) # <<>> THEN [acc EXCEPT !.ipv4 = Append(@, addr)]
    ELSE IF To16(ip) # <<>> THEN [acc EXCEPT !.ipv6 = Append(@, addr)]
    ELSE acc

\* gaPut taking what net.ParseIP rejects for an IPv4 address
gaPutUnvalidated(acc, addr, ip) ==
    IF addr = "" THEN acc
    ELSE IF ip = NoIP \/ To4(ip) # <<>> THEN [acc EXCEPT !.ipv4 = Append(@, addr)]
    ELSE IF To16(ip) # <<>> /\ ~IsLinkLocalUnicast(ip)
         THEN [acc EXCEPT !.ipv6 = Append(@, addr)]
    ELSE acc

\* the body of the inner loop of extractGuestAgentIPs, for the trimmed entry addr
\* of iface.IPs and ip = net.ParseIP(addr)
gaPut(acc, addr, ip) ==
    IF addr = "" THEN acc
    ELSE IF ip = NoIP THEN acc
    ELSE IF To4(ip) # <<>> THEN [acc EXCEPT !.ipv4 = Append(@, addr)]
    ELSE IF To16(ip) # <<>> /\ ~IsLinkLocalUnicast(ip)
         THEN [acc EXCEPT !.ipv6 = Append(@, addr)]
    ELSE acc

gaParse(acc, addr) == gaPut(acc, addr, ParseIP(addr))

gaAppend(acc, raw) == gaParse(acc, TrimSpace(raw))

RECURSIVE gaAddrs(_, _, _)
gaAddrs(acc, ips, k) ==
    IF k > Len(ips) THEN acc ELSE gaAddrs(gaAppend(acc, ips[k]), ips, k + 1)

RECURSIVE gaLoop(_, _, _)
gaLoop(acc, ifaces, i) ==
    IF i > Len(ifaces) THEN acc
    ELSE IF ~containsInfoSource(ifaces[i].infoSource, guestAgentInfoSource)
         THEN gaLoop(acc, ifaces, i + 1)
         ELSE gaLoop(gaAddrs(acc, ifaces[i].ips, 1), ifaces, i + 1)

extractGuestAgentIPs(ifaces) == gaLoop(NoAddrs, ifaces, 1)

\* the body of the loop of extractMultusIPs, for addr the trimmed iface.IP and
\* ip = net.ParseIP(addr)
multusPut(acc, addr, ip) ==
    IF addr = "" THEN acc
    ELSE IF ip = NoIP THEN acc
    ELSE IF To4(ip) # <<>> THEN [acc EXCEPT !.ipv4 = Append(@, addr)]
    ELSE IF To16(ip) # <<>> THEN [acc EXCEPT !.ipv6 = Append(@, addr)]
    ELSE acc

multusParse(acc, addr) == multusPut(acc, addr, ParseIP(addr))

multusAppend(acc, iface) ==
    IF ~containsInfoSource(iface.infoSource, multusInfoSource) THEN acc
    ELSE multusParse(acc, TrimSpace(iface.ip))

RECURSIVE multusLoop(_, _, _)
multusLoop(acc, ifaces, i) ==
    IF i > Len(ifaces) THEN acc
    ELSE multusLoop(multusAppend(acc, ifaces[i]), ifaces, i + 1)

extractMultusIPs(ifaces) == multusLoop(NoAddrs, ifaces, 1)

\* bestOf blending the two extractions
bestOfBlended(ga, m) ==
    IF Len(ga.ipv4) > 0 \/ Len(ga.ipv6) > 0
    THEN [ipv4 |-> ga.ipv4 \o m.ipv4, ipv6 |-> ga.ipv6 \o m.ipv6,
          source |-> guestAgentInfoSource]
    ELSE IF Len(m.ipv4) > 0 \/ Len(m.ipv6) > 0
    THEN [ipv4 |-> m.ipv4, ipv6 |-> m.ipv6, source |-> multusInfoSource]
    ELSE [ipv4 |-> <<>>, ipv6 |-> <<>>, source |-> ""]

\* the choice of extractBestIPs between the two extractions
bestOf(ga, m) ==
    IF Len(ga.ipv4) > 0 \/ Len(ga.ipv6) > 0
    THEN [ipv4 |-> ga.ipv4, ipv6 |-> ga.ipv6, source |-> guestAgentInfoSource]
    ELSE IF Len(m.ipv4) > 0 \/ Len(m.ipv6) > 0
    THEN [ipv4 |-> m.ipv4, ipv6 |-> m.ipv6, source |-> multusInfoSource]
    ELSE [ipv4 |-> <<>>, ipv6 |-> <<>>, source |-> ""]

extractBestIPs(ifaces) ==
    bestOf(extractGuestAgentIPs(ifaces), extractMultusIPs(ifaces))

(***************************************************************************)
(* Annotation parsers and the record builder.                              *)
(***************************************************************************)
RECURSIVE hostLoop(_, _, _)
\* hostAppend keeping the empty tokens
hostAppendKeepingEmpty(acc, h) == Append(acc, h)

hostAppend(acc, h) == IF h # "" THEN Append(acc, h) ELSE acc

hostLoop(acc, parts, k) ==
    IF k > Len(parts) THEN acc
    ELSE hostLoop(hostAppend(acc, TrimSpace(parts[k])), parts, k + 1)

parseHostnames(raw) == hostLoop(<<>>, Split(raw, ","), 1)

MaxInt64Digits == "9223372036854775807"

\* digit strings of equal length compare as numbers, position by position
RECURSIVE DigitsGreater(_, _)
DigitsGreater(a, b) ==
    IF Len(a) = 0 THEN FALSE
    ELSE IF DigitVal(At(a, 1)) # DigitVal(At(b, 1))
         THEN DigitVal(At(a, 1)) > DigitVal(At(b, 1))
         ELSE DigitsGreater(From(a, 2), From(b, 2))

RECURSIVE StripZeros(_)
StripZeros(d) == IF Len(d) > 1 /\ At(d, 1) = "0" THEN StripZeros(From(d, 2)) ELSE d

RECURSIVE DecVal(_)
DecVal(d) == IF Len(d) = 0 THEN 0
             ELSE 10 * DecVal(SubSeq(d, 1, Len(d) - 1)) + DigitVal(At(d, Len(d)))

NoInt == [ok |-> FALSE, v |-> 0]

\* intOf with a range of nine digits, as of a narrower integer type
intOfNarrow(neg, n) ==
    IF Len(n) > 9 THEN NoInt
    ELSE [ok |-> TRUE, v |-> IF neg THEN -DecVal(n) ELSE DecVal(n)]

\* the value of the digit string n, which has no leading zero, negated when neg
intOf(neg, n) ==
    IF Len(n) > Len(MaxInt64Digits) THEN NoInt
    ELSE IF /\ Len(n) = Len(MaxInt64Digits) /\ DigitsGreater(n, MaxInt64Digits)
            /\ ~(neg /\ n = "9223372036854775808")
         THEN NoInt
    ELSE [ok |-> TRUE, v |-> IF neg THEN -DecVal(n) ELSE DecVal(n)]

\* the digits d of the number after its sign
intOfDigits(neg, d) ==
    IF Len(d) = 0 THEN NoInt
    ELSE IF \E i \in 1..Len(d) : ~IsDigit(At(d, i)) THEN NoInt
    ELSE intOf(neg, StripZeros(d))

\* strconv.ParseInt(s, 10, 64): [ok, v]; a syntax or a range error gives ok = FALSE
ParseInt(s) ==
    IF Len(s) > 0 /\ At(s, 1) \in {"+", "-"}
    THEN intOfDigits(At(s, 1) = "-", From(s, 2))
    ELSE intOfDigits(FALSE, s)

\* ttlOf without the check of the sign
ttlOfUnchecked(r) == IF ~r.ok THEN defaultTTL ELSE r.v

ttlOf(r) == IF ~r.ok \/ r.v <= 0 THEN defaultTTL ELSE r.v

parseTTL(raw) == IF raw = "" THEN defaultTTL ELSE ttlOf(ParseInt(TrimSpace(raw)))

Endpoint(name, kind, targets, ttl) ==
    [dnsName |-> name, recordType |-> kind, targets |-> targets, recordTTL |-> ttl]

RECURSIVE buildLoop(_, _, _, _, _, _)
\* addRecord without the check of the number of targets
addRecordUnchecked(acc, hostname, kind, targets, ttl) ==
    Append(acc, Endpoint(hostname, kind, targets, ttl))

\* the body of the loop of buildEndpoints, one record type of one hostname
addRecord(acc, hostname, kind, targets, ttl) ==
    IF Len(targets) > 0 THEN Append(acc, Endpoint(hostname, kind, targets, ttl))
    ELSE acc

buildLoop(acc, hostnames, ipv4, ipv6, ttl, k) ==
    IF k > Len(hostnames) THEN acc
    ELSE buildLoop(addRecord(addRecord(acc, hostnames[k], "A", ipv4, ttl),
                             hostnames[k], "AAAA", ipv6, ttl),
                   hostnames, ipv4, ipv6, ttl, k + 1)

\* buildEndpoints with the A records of all hostnames before the AAAA records
buildEndpointsKindMajor(hostnames, ipv4, ipv6, ttl) ==
    buildLoop(<<>>, hostnames, ipv4, <<>>, ttl, 1)
        \o buildLoop(<<>>, hostnames, <<>>, ipv6, ttl, 1)

buildEndpoints(hostnames, ipv4, ipv6, ttl) ==
    buildLoop(<<>>, hostnames, ipv4, ipv6, ttl, 1)

(***************************************************************************)
(* vmiChangedPredicate: which watch events of a VirtualMachineInstance     *)
(* lead to a Reconcile request.                                            *)
(***************************************************************************)
\* the type assertion e.Object.(*kubevirtv1.VirtualMachineInstance) succeeds
isVMI(obj) == "ifaces" \in DOMAIN obj

\* a map read: the value at the key, "" when the key is missing
annotationOf(obj, key) ==
    IF key \in DOMAIN obj.annotations THEN obj.annotations[key] ELSE ""

annotationChanged(old, new) ==
    annotationOf(old, annotationHostname) # annotationOf(new, annotationHostname)

\* reflect.DeepEqual of two Status.Interfaces
DeepEqual(a, b) == a = b

interfacesChanged(old, new) == ~DeepEqual(old.ifaces, new.ifaces)

\* UpdateFunc looking at the hostname annotation only
UpdateFuncAnnotationOnly(old, new) ==
    IF ~isVMI(old) \/ ~isVMI(new) THEN TRUE
    ELSE annotationChanged(old, new)

UpdateFunc(old, new) ==
    IF ~isVMI(old) \/ ~isVMI(new) THEN TRUE
    ELSE annotationChanged(old, new) \/ interfacesChanged(old, new)

CreateFunc(obj) == TRUE
DeleteFunc(obj) == TRUE
GenericFunc(obj) == TRUE

\* the predicate on an event of the given kind; old is read by updates only
vmiChangedPredicate(kind, old, new) ==
    IF kind = "update" THEN UpdateFunc(old, new)
    ELSE IF kind = "create" THEN CreateFunc(new)
    ELSE IF kind = "delete" THEN DeleteFunc(new)
    ELSE GenericFunc(new)

(***************************************************************************)
(* State.                                                                  *)
(*   vmis       API server: the VirtualMachineInstance stored at each key  *)
(*   endpoints  API server: the DNSEndpoint stored at each key             *)
(*   changes    how many objects other clients have created or changed     *)
(*   pc         where the Reconcile pass stands: "idle", the next API call *)
(*              it will make, or "done"                                    *)
(*   req        the key the pass was requested for                         *)
(*   vmi        the VirtualMachineInstance the pass fetched                *)
(*   stale      the DNSEndpoint changed after the pass read it             *)
(*   calls      the API calls of the pass so far, with their answers       *)
(*   ret        the error Reconcile returned ("nil" for none)              *)
(*   repeat     the pass repeats the pass before it: same key, same        *)
(*              fetched VirtualMachineInstance, and no other client wrote  *)
(*              the DNSEndpoint since                                      *)
(*   first      what the pass before returned, when the pass repeats it    *)
(*   untouched  no other client wrote the DNSEndpoint of req since the     *)
(*              pass ended                                                 *)
(*   fnIfaces, fnOut  an interface list under extraction and what the      *)
(*              three extraction functions return for it                   *)
(*   fnCall     a call of one of the other functions: its name, its        *)
(*              arguments and what it returned                             *)
(*   queue      the controller's work queue: the keys waiting for a pass   *)
(***************************************************************************)
VARIABLES vmis, endpoints, changes, pc, req, vmi, stale, calls, ret, repeat,
          first, untouched, fnIfaces, fnOut, fnCall, queue

apiVars == <<vmis, endpoints, changes>>
passVars == <<pc, req, vmi, stale, calls, ret, repeat, first, untouched>>
fnVars == <<fnIfaces, fnOut, fnCall>>
vars == <<vmis, endpoints, changes, pc, req, vmi, stale, calls, ret, repeat,
          first, untouched, fnIfaces, fnOut, fnCall, queue>>

\* bounds of the model
MaxIfaces == 2
MaxChanges == 2
MaxHostnames == 2

\* the interface reports the extraction is tried on
InfoSourceSamples ==
    {"guest-agent", "domain, multus-status", "multus, multus-status-v6",
     "multus-status,guest-agent"}

\* a primary address (iface.IP) with an address list (iface.IPs)
AddressSamples ==
    { <<"", <<>>>>,
      <<"10.0.0.1", <<>>>>,
      <<"", <<"192.168.1.1", "fe80::1", " 2001:db8::1", "10.1.1.1">>>>,
      <<" fe80::2 ", <<"192.168.1.1", "fe80::1", " 2001:db8::1", "10.1.1.1">>>>,
      <<"10.0.0.256", <<"febf::9", "bogus", "">>>>,
      <<"2001:db8::5", <<"febf::9", "bogus", "">>>> }

IfaceSamples ==
    {Iface(src, a[1], a[2]) : src \in InfoSourceSamples, a \in AddressSamples}

extractAll(ifaces) ==
    [ga |-> extractGuestAgentIPs(ifaces),
     multus |-> extractMultusIPs(ifaces),
     best |-> extractBestIPs(ifaces)]

(***************************************************************************)
(* Objects of the API server.                                              *)
(***************************************************************************)
Identities == {"default/vm-a", "default/vm-b"}

Absent == [exists |-> FALSE]

VMI(annotations, ifaces) ==
    [exists |-> TRUE, annotations |-> annotations, ifaces |-> ifaces]

NoOwner == [kind |-> "", name |-> ""]
\* the controller owner reference SetControllerReference writes for the VMI at id
OwnerOf(id) == [kind |-> "VirtualMachineInstance", name |-> id]
OtherOwner == [kind |-> "Deployment", name |-> "default/web"]

DNSEndpoint(eps, owner) == [exists |-> TRUE, endpoints |-> eps, owner |-> owner]

NoAnnotations == [k \in {} |-> ""]

\* annotations[key], "" when the key is missing
Lookup(annotations, key) ==
    IF key \in DOMAIN annotations THEN annotations[key] ELSE ""

AnnotationSamples ==
    { NoAnnotations,
      annotationHostname :> " ",
      annotationHostname :> "a.test",
      (annotationHostname :> "a.test") @@ (annotationTTL :> "60"),
      (annotationHostname :> "b.test, a.test") @@ (annotationTTL :> "-1"),
      annotationHostname :> "," }

InterfacesSamples ==
    { <<>>,
      <<Iface("guest-agent", "10.0.0.256",
              <<"192.168.1.1", "bogus", "fe80::1", "", "2001:db8::1", "::ffff:10.0.0.7">>)>>,
      <<Iface("domain, multus-status", "10.0.0.1", <<>>)>> }

\* what another client may store as a DNSEndpoint: without an owner, the record
\* of a.test at 10.0.0.1; one that another controller owns
ForeignEndpoints ==
    { DNSEndpoint(<<Endpoint("a.test", "A", <<"10.0.0.1">>, 300)>>, NoOwner),
      DNSEndpoint(<<Endpoint("old.test", "A", <<"10.9.9.9">>, 300)>>, OtherOwner) }

(***************************************************************************)
(* Other clients of the API server: the VirtualMachineInstance is created, *)
(* changed and deleted; a DNSEndpoint is written or deleted by someone     *)
(* else; the garbage collector deletes a DNSEndpoint whose owner is gone.  *)
(***************************************************************************)
\* a write by another client to the DNSEndpoint at id, seen from the pass
Touch(id) ==
    /\ stale' = (stale \/ id = req)
    /\ repeat' = (repeat /\ id # req)
    /\ first' = IF id # req THEN first ELSE "nil"
    /\ untouched' = (untouched /\ id # req)

VMIApply(id) ==
    /\ changes < MaxChanges
    /\ \E a \in AnnotationSamples, ifs \in InterfacesSamples :
          /\ vmis[id] # VMI(a, ifs)
          /\ vmis' = [vmis EXCEPT ![id] = VMI(a, ifs)]
    /\ changes' = changes + 1
    /\ UNCHANGED <<endpoints, passVars, fnVars>>

VMIDelete(id) ==
    /\ vmis[id].exists
    /\ vmis' = [vmis EXCEPT ![id] = Absent]
    /\ UNCHANGED <<endpoints, changes, passVars, fnVars>>

ForeignWrite(id) ==
    /\ changes < MaxChanges
    /\ \E e \in ForeignEndpoints :
          /\ endpoints[id] # e
          /\ endpoints' = [endpoints EXCEPT ![id] = e]
    /\ changes' = changes + 1
    /\ Touch(id)
    /\ UNCHANGED <<vmis, pc, req, vmi, calls, ret, fnVars>>

ForeignDelete(id) ==
    /\ endpoints[id].exists
    /\ endpoints' = [endpoints EXCEPT ![id] = Absent]
    /\ Touch(id)
    /\ UNCHANGED <<vmis, changes, pc, req, vmi, calls, ret, fnVars>>

\* the ownership cascade
GarbageCollect(id) ==
    /\ endpoints[id].exists
    /\ endpoints[id].owner = OwnerOf(id)
    /\ ~vmis[id].exists
    /\ endpoints' = [endpoints EXCEPT ![id] = Absent]
    /\ Touch(id)
    /\ UNCHANGED <<vmis, changes, pc, req, vmi, calls, ret, fnVars>>

(***************************************************************************)
(* Reconcile.  One pass runs at a time (the controller's default of one    *)
(* worker); it is a sequence of steps, each ending in an API call.         *)
(***************************************************************************)
Call(op, kind, key, res) == [op |-> op, kind |-> kind, key |-> key, res |-> res]

\* what the API server can answer to a read at a key
ReadAnswers(store, key) ==
    {"Error"} \cup (IF store[key].exists THEN {"ok"} ELSE {"NotFound"})

\* what a step of the pass leads to: Reconcile returns err, or goes on to a call
Return(err) == [pc |-> "done", ret |-> err]
Goto(step) == [pc |-> step, ret |-> "nil"]

Continue(next) ==
    /\ pc' = next.pc
    /\ ret' = next.ret
    /\ untouched' = TRUE

hostnameOf(v) == TrimSpace(Lookup(v.annotations, annotationHostname))

hasAnnotation(v) == annotationHostname \in DOMAIN v.annotations

desiredFrom(hostname, best, ttl) ==
    buildEndpoints(parseHostnames(hostname), best.ipv4, best.ipv6, parseTTL(ttl))

\* the endpoints Reconcile computes from the fetched VirtualMachineInstance
desiredEndpoints(v) ==
    desiredFrom(hostnameOf(v), extractBestIPs(v.ifaces),
                Lookup(v.annotations, annotationTTL))

noIPs(best) == Len(best.ipv4) = 0 /\ Len(best.ipv6) = 0

\* branchOf without the TrimSpace of the annotation value
branchOfUntrimmed(v) ==
    IF ~hasAnnotation(v) \/ Lookup(v.annotations, annotationHostname) = "" THEN "delete"
    ELSE IF noIPs(extractBestIPs(v.ifaces)) THEN "skip"
    ELSE "upsert"

\* branchOf deleting the DNSEndpoint when no address is resolved
branchOfDeletingWithoutIPs(v) ==
    IF ~hasAnnotation(v) \/ hostnameOf(v) = "" THEN "delete"
    ELSE IF noIPs(extractBestIPs(v.ifaces)) THEN "delete"
    ELSE "upsert"

\* the branch Reconcile takes on the fetched VirtualMachineInstance
branchOf(v) ==
    IF ~hasAnnotation(v) \/ hostnameOf(v) = "" THEN "delete"
    ELSE IF noIPs(extractBestIPs(v.ifaces)) THEN "skip"
    ELSE "upsert"

\* branchOf and desiredEndpoints on the sample objects, evaluated once each
VMISamples == {VMI(a, ifs) : a \in AnnotationSamples, ifs \in InterfacesSamples}
branchOfSample[v \in VMISamples] == branchOf(v)
desiredOfSample[v \in VMISamples] == desiredEndpoints(v)

\* Reconcile on the branch it takes
afterBranch(branch) ==
    IF branch = "delete" THEN Goto("deleteGet")
    ELSE IF branch = "skip" THEN Return("nil")
    ELSE Goto("upsertGet")

\* afterGetVMI cleaning up the DNSEndpoint itself when the VMI is not found
afterGetVMICleaningUp(res, v) ==
    IF res = "Error" THEN Return("Error")
    ELSE IF res = "NotFound" THEN Goto("deleteGet")
    ELSE afterBranch(branchOfSample[v])

\* Reconcile after r.Get of the VirtualMachineInstance
afterGetVMI(res, v) ==
    IF res = "Error" THEN Return("Error")
    ELSE IF res = "NotFound" THEN Return("nil")
    ELSE afterBranch(branchOfSample[v])

\* r.Get of the VirtualMachineInstance and the decision that follows it
ReconcileFetch(id) ==
    /\ pc \in {"idle", "done"}
    /\ req' = id
    /\ stale' = FALSE
    /\ \E res \in ReadAnswers(vmis, id) :
          /\ calls' = <<Call("get", "VirtualMachineInstance", id, res)>>
          /\ vmi' = IF res = "ok" THEN vmis[id] ELSE Absent
          /\ repeat' = (/\ pc = "done" /\ req = id /\ untouched
                        /\ calls[1].res # "Error" /\ res # "Error"
                        /\ vmi' = vmi)
          /\ first' = IF repeat' THEN ret ELSE "nil"
          /\ Continue(afterGetVMI(res, vmis[id]))
    /\ UNCHANGED <<apiVars, fnVars>>

\* endpointKey giving every DNSEndpoint one fixed name
endpointKeyFixed(id) == CHOOSE k \in Identities : TRUE

\* the key of the DNSEndpoint of the VirtualMachineInstance fetched at id: its
\* Name and Namespace, which are those of the request
endpointKey(id) == id

\* afterGetForDelete sparing an object the VirtualMachineInstance does not control
afterGetForDeleteOwnedOnly(res) ==
    IF res = "NotFound" THEN Return("nil")
    ELSE IF res = "Error" THEN Return("Error")
    ELSE IF endpoints[endpointKey(req)].owner # OwnerOf(req) THEN Return("nil")
    ELSE Goto("delete")

\* deleteEndpointIfExists after r.Get of the DNSEndpoint
afterGetForDelete(res) ==
    IF res = "NotFound" THEN Return("nil")
    ELSE IF res = "Error" THEN Return("Error")
    ELSE Goto("delete")

\* deleteEndpointIfExists: r.Get of the DNSEndpoint
DeleteGet ==
    /\ pc = "deleteGet"
    /\ stale' = FALSE
    /\ \E res \in ReadAnswers(endpoints, endpointKey(req)) :
          /\ calls' = Append(calls, Call("get", "DNSEndpoint", endpointKey(req), res))
          /\ Continue(afterGetForDelete(res))
    /\ UNCHANGED <<apiVars, req, vmi, repeat, first, fnVars>>

\* afterDelete going on to CreateOrUpdate when the object is deleted
afterDeleteThenUpsert(res) == IF res = "ok" THEN Goto("upsertGet") ELSE Return(res)

\* afterDelete dropping the error of r.Delete
afterDeleteIgnoringErrors(res) == Return("nil")

\* deleteEndpointIfExists returns what r.Delete returns
afterDelete(res) == Return(IF res = "ok" THEN "nil" ELSE res)

\* deleteEndpointIfExists: r.Delete
Delete ==
    /\ pc = "delete"
    /\ \E res \in {"Error"} \cup
                  (IF endpoints[endpointKey(req)].exists THEN {"ok"} ELSE {"NotFound"}) :
          /\ calls' = Append(calls, Call("delete", "DNSEndpoint", endpointKey(req), res))
          /\ endpoints' = IF res = "ok"
                          THEN [endpoints EXCEPT ![endpointKey(req)] = Absent]
                          ELSE endpoints
          /\ Continue(afterDelete(res))
    /\ UNCHANGED <<vmis, changes, req, vmi, stale, repeat, first, fnVars>>

\* mutated keeping the endpoints the object already holds
mutatedAppending(obj, v, id) ==
    DNSEndpoint((IF obj.exists THEN obj.endpoints ELSE <<>>) \o desiredOfSample[v],
                OwnerOf(id))

\* mutated without the call of SetControllerReference
mutatedWithoutOwner(obj, v, id) ==
    DNSEndpoint(desiredOfSample[v], IF obj.exists THEN obj.owner ELSE NoOwner)

\* the mutate function of CreateOrUpdate: the spec and the controller reference
mutated(obj, v, id) == DNSEndpoint(desiredOfSample[v], OwnerOf(id))

\* SetControllerReference refuses an object another controller owns
alreadyOwned(obj, id) == obj.exists /\ obj.owner # NoOwner /\ obj.owner # OwnerOf(id)

\* afterGetForUpsert without the comparison of the old and the new object
afterGetForUpsertAlwaysUpdating(res, existing, v, id) ==
    IF res = "Error" THEN Return("Error")
    ELSE IF res = "NotFound" THEN Goto("create")
    ELSE IF alreadyOwned(existing, id) THEN Return("AlreadyOwned")
    ELSE Goto("update")

\* CreateOrUpdate after Get of the DNSEndpoint: the mutate function and the
\* comparison of the object before and after it
afterGetForUpsert(res, existing, v, id) ==
    IF res = "Error" THEN Return("Error")
    ELSE IF res = "NotFound" THEN Goto("create")
    ELSE IF alreadyOwned(existing, id) THEN Return("AlreadyOwned")
    ELSE IF mutated(existing, v, id) = existing THEN Return("nil")
    ELSE Goto("update")

\* CreateOrUpdate: Get of the DNSEndpoint
UpsertGet ==
    /\ pc = "upsertGet"
    /\ stale' = FALSE
    /\ \E res \in ReadAnswers(endpoints, endpointKey(req)) :
          /\ calls' = Append(calls, Call("get", "DNSEndpoint", endpointKey(req), res))
          /\ Continue(afterGetForUpsert(res, endpoints[endpointKey(req)], vmi, req))
    /\ UNCHANGED <<apiVars, req, vmi, repeat, first, fnVars>>

\* CreateOrUpdate returns the error of Create or Update
afterWrite(res) == Return(IF res = "ok" THEN "nil" ELSE res)

\* CreateOrUpdate: Create
Create ==
    /\ pc = "create"
    /\ \E res \in {"Error"} \cup
                  (IF endpoints[endpointKey(req)].exists THEN {"AlreadyExists"} ELSE {"ok"}) :
          /\ calls' = Append(calls, Call("create", "DNSEndpoint", endpointKey(req), res))
          /\ endpoints' = IF res = "ok"
                          THEN [endpoints EXCEPT ![endpointKey(req)] = mutated(Absent, vmi, req)]
                          ELSE endpoints
          /\ Continue(afterWrite(res))
    /\ UNCHANGED <<vmis, changes, req, vmi, stale, repeat, first, fnVars>>

\* CreateOrUpdate: Update
Update ==
    /\ pc = "update"
    /\ \E res \in {"Error"} \cup
                  (IF ~endpoints[endpointKey(req)].exists THEN {"NotFound"}
                   ELSE IF stale THEN {"Conflict"} ELSE {"ok"}) :
          /\ calls' = Append(calls, Call("update", "DNSEndpoint", endpointKey(req), res))
          /\ endpoints' = IF res = "ok"
                          THEN [endpoints EXCEPT ![endpointKey(req)] = mutated(endpoints[endpointKey(req)], vmi, req)]
                          ELSE endpoints
          /\ Continue(afterWrite(res))
    /\ UNCHANGED <<vmis, changes, req, vmi, stale, repeat, first, fnVars>>

\* no function has been called
NoCall == [fn |-> "none", in |-> <<>>, out |-> <<>>]

Init ==
    /\ vmis = [id \in Identities |-> Absent]
    /\ endpoints = [id \in Identities |-> Absent]
    /\ changes = 0
    /\ pc = "idle"
    /\ req = CHOOSE id \in Identities : TRUE
    /\ vmi = Absent
    /\ stale = FALSE
    /\ calls = <<>>
    /\ ret = "nil"
    /\ repeat = FALSE
    /\ first = "nil"
    /\ untouched = TRUE
    /\ fnIfaces = <<>>
    /\ fnOut = [ga |-> NoAddrs, multus |-> NoAddrs, best |-> bestOf(NoAddrs, NoAddrs)]
    /\ fnCall = NoCall
    /\ queue = {}

\* a pass may start on any key at any time: the queue is left aside
Next ==
    \/ \E id \in Identities : VMIApply(id) /\ UNCHANGED queue
    \/ \E id \in Identities : VMIDelete(id) /\ UNCHANGED queue
    \/ \E id \in Identities : ForeignWrite(id) /\ UNCHANGED queue
    \/ \E id \in Identities : ForeignDelete(id) /\ UNCHANGED queue
    \/ \E id \in Identities : GarbageCollect(id) /\ UNCHANGED queue
    \/ \E id \in Identities : ReconcileFetch(id) /\ UNCHANGED queue
    \/ DeleteGet /\ UNCHANGED queue
    \/ Delete /\ UNCHANGED queue
    \/ UpsertGet /\ UNCHANGED queue
    \/ Create /\ UNCHANGED queue
    \/ Update /\ UNCHANGED queue

Spec == Init /\ [][Next]_vars

(***************************************************************************)
(* The controller as SetupWithManager wires it: passes start from the work *)
(* queue.  A key enters the queue with an event on its                     *)
(* VirtualMachineInstance that vmiChangedPredicate lets through, with an   *)
(* event on a DNSEndpoint that the VirtualMachineInstance controls, and    *)
(* when its pass returned an error.  An event is delivered with the change *)
(* that causes it.                                                         *)
(***************************************************************************)
eventKind(old, new) ==
    IF ~old.exists THEN "create" ELSE IF ~new.exists THEN "delete" ELSE "update"

\* vmiRequests with the predicate that looks at the hostname annotation only
vmiRequestsAnnotationOnly(id, old, new) ==
    IF eventKind(old, new) # "update" \/ UpdateFuncAnnotationOnly(old, new)
    THEN {id} ELSE {}

\* For(VirtualMachineInstance, WithPredicates(vmiChangedPredicate))
vmiRequests(id, old, new) ==
    IF vmiChangedPredicate(eventKind(old, new), old, IF new.exists THEN new ELSE old)
    THEN {id} ELSE {}

\* the request for the controller of a DNSEndpoint
ownerRequests(obj) ==
    IF obj.exists /\ obj.owner.kind = "VirtualMachineInstance"
    THEN {obj.owner.name} ELSE {}

\* Owns(DNSEndpoint): the owners of the object before and after the event
endpointRequests(old, new) ==
    IF old = new THEN {} ELSE ownerRequests(old) \cup ownerRequests(new)

\* the key of a pass that returned an error is queued again
Requeued == IF pc' = "done" /\ ret' # "nil" THEN {req'} ELSE {}

SyncVMIApply(id) ==
    /\ VMIApply(id)
    /\ queue' = queue \cup vmiRequests(id, vmis[id], vmis'[id])

SyncVMIDelete(id) ==
    /\ VMIDelete(id)
    /\ queue' = queue \cup vmiRequests(id, vmis[id], vmis'[id])

SyncForeignWrite(id) ==
    /\ ForeignWrite(id)
    /\ queue' = queue \cup endpointRequests(endpoints[id], endpoints'[id])

SyncForeignDelete(id) ==
    /\ ForeignDelete(id)
    /\ queue' = queue \cup endpointRequests(endpoints[id], endpoints'[id])

SyncGarbageCollect(id) ==
    /\ GarbageCollect(id)
    /\ queue' = queue \cup endpointRequests(endpoints[id], endpoints'[id])

\* the worker takes a key from the queue and calls Reconcile
SyncReconcileFetch(id) ==
    /\ id \in queue
    /\ ReconcileFetch(id)
    /\ queue' = (queue \ {id}) \cup Requeued

SyncDeleteGet ==
    /\ DeleteGet
    /\ queue' = queue \cup Requeued

SyncDelete ==
    /\ Delete
    /\ queue' = queue \cup Requeued
                  \cup endpointRequests(endpoints[endpointKey(req)],
                                         endpoints'[endpointKey(req)])

SyncUpsertGet ==
    /\ UpsertGet
    /\ queue' = queue \cup Requeued

SyncCreate ==
    /\ Create
    /\ queue' = queue \cup Requeued
                  \cup endpointRequests(endpoints[endpointKey(req)],
                                         endpoints'[endpointKey(req)])

SyncUpdate ==
    /\ Update
    /\ queue' = queue \cup Requeued
                  \cup endpointRequests(endpoints[endpointKey(req)],
                                         endpoints'[endpointKey(req)])

\* the keys whose events are followed: a pass touches the objects of its own key
\* only, and the queue hands out the keys in turn
Watched == {"default/vm-a"}

SyncNext ==
    \/ \E id \in Watched : SyncVMIApply(id)
    \/ \E id \in Watched : SyncVMIDelete(id)
    \/ \E id \in Watched : SyncForeignWrite(id)
    \/ \E id \in Watched : SyncForeignDelete(id)
    \/ \E id \in Watched : SyncGarbageCollect(id)
    \/ \E id \in Watched : SyncReconcileFetch(id)
    \/ SyncDeleteGet
    \/ SyncDelete
    \/ SyncUpsertGet
    \/ SyncCreate
    \/ SyncUpdate

\* the API server has answered the last call otherwise than with a failure
Answered == calls'[Len(calls')].res # "Error"

\* every queued key gets its pass, and no call of the passes of a key fails for
\* ever
SyncFairness ==
    \A id \in Watched :
        /\ SF_vars(SyncReconcileFetch(id) /\ Answered)
        /\ SF_vars(SyncDeleteGet /\ req = id /\ Answered)
        /\ SF_vars(SyncDelete /\ req = id /\ Answered)
        /\ SF_vars(SyncUpsertGet /\ req = id /\ Answered)
        /\ SF_vars(SyncCreate /\ req = id /\ Answered)
        /\ SF_vars(SyncUpdate /\ req = id /\ Answered)

SpecSync == Init /\ [][SyncNext]_vars /\ SyncFairness

\* the controller with a garbage collector that leaves no orphan for ever
SpecCascade ==
    Init /\ [][SyncNext]_vars /\ \A id \in Watched : WF_vars(SyncGarbageCollect(id))

(***************************************************************************)
(* Properties of the Reconcile pass.                                       *)
(***************************************************************************)
\* the hostname annotation is present and not blank
HostnamePresent(v) ==
    /\ v.exists
    /\ annotationHostname \in DOMAIN v.annotations
    /\ TrimSpace(v.annotations[annotationHostname]) # ""

\* one of the two sources yields an address
Resolved(v) ==
    Len(extractBestIPs(v.ifaces).ipv4) + Len(extractBestIPs(v.ifaces).ipv6) > 0

\* the case of each VMI the passes can fetch
hostnameSample[v \in VMISamples] == HostnamePresent(v)
resolvedSample[v \in VMISamples] == Resolved(v)

UpsertCase(v) == v.exists /\ hostnameSample[v] /\ resolvedSample[v]
SkipCase(v) == v.exists /\ hostnameSample[v] /\ ~resolvedSample[v]
DeleteCase(v) == v.exists /\ ~hostnameSample[v]

IsWrite(c) == c.op \in {"create", "update", "delete"}
WriteCalls(cs) == {k \in 1..Len(cs) : IsWrite(cs[k])}

\* the endpoints declared for a VMI: one record per hostname and address family
declared(v) ==
    buildEndpoints(parseHostnames(v.annotations[annotationHostname]),
                   extractBestIPs(v.ifaces).ipv4,
                   extractBestIPs(v.ifaces).ipv6,
                   parseTTL(Lookup(v.annotations, annotationTTL)))

declaredSample[v \in VMISamples] == IF HostnamePresent(v) THEN declared(v) ELSE <<>>

\* C1: a pass that returns nil for a VMI with a hostname and a resolved address
\* leaves, at the VMI's key, a DNSEndpoint whose endpoints are exactly
\* buildEndpoints(parseHostnames(hostname), ipv4, ipv6, parseTTL(ttl)) of the fetched
\* VMI (as long as no other client has written the object since).
UpsertLeavesDesired ==
    (pc = "done" /\ ret = "nil" /\ untouched /\ UpsertCase(vmi))
        => /\ endpoints[req].exists
           /\ endpoints[req].endpoints = declaredSample[vmi]

\* a pass has replaced the endpoints of an existing DNSEndpoint by those of a VMI
\* with two hostnames
UpsertReplaced ==
    /\ pc = "done" /\ ret = "nil" /\ untouched /\ UpsertCase(vmi)
    /\ Len(calls) = 3 /\ calls[3].op = "update" /\ calls[3].res = "ok"
    /\ Len(parseHostnames(vmi.annotations[annotationHostname])) = 2
    /\ Len(endpoints[req].endpoints) = 4

DeleteBranchDeletesOnce ==
    (pc = "done" /\ DeleteCase(vmi))
        => /\ Len(calls) >= 2
           /\ calls[2].op = "get" /\ calls[2].kind = "DNSEndpoint" /\ calls[2].key = req
           /\ calls[2].res = "ok"
                 => /\ Len(calls) = 3
                    /\ calls[3].op = "delete" /\ calls[3].key = req
           /\ calls[2].res = "NotFound" => (Len(calls) = 2 /\ ret = "nil")

\* a pass has deleted the DNSEndpoint of a VMI whose hostname annotation is blank
DeletedForBlankHostname ==
    /\ pc = "done" /\ DeleteCase(vmi)
    /\ annotationHostname \in DOMAIN vmi.annotations
    /\ Len(calls) = 3 /\ calls[3].op = "delete" /\ calls[3].res = "ok"
    /\ ~endpoints[req].exists

\* C4: when the read of the VMI answers NotFound the pass returns nil and makes no
\* further API call: the DNSEndpoint is neither read nor deleted.
NotFoundIsNoOp ==
    (Len(calls) >= 1 /\ calls[1].res = "NotFound")
        => (pc = "done" /\ ret = "nil" /\ Len(calls) = 1)

\* the VMI is gone and the pass has left its DNSEndpoint to the ownership cascade
NotFoundLeftEndpoint ==
    /\ pc = "done" /\ Len(calls) = 1 /\ calls[1].res = "NotFound"
    /\ untouched
    /\ endpoints[req].exists
    /\ endpoints[req].owner = OwnerOf(req)

\* C5: a pass that repeats a pass that returned nil (same key, the same fetched
\* VMI, no other client wrote the DNSEndpoint in between) makes no write call,
\* whatever the branch.
RepeatAfterSuccessWritesNothing ==
    (repeat /\ first = "nil") => WriteCalls(calls) = {}

\* the repeated pass is on the upsert branch and found the DNSEndpoint up to date
RepeatedUpsert ==
    /\ pc = "done" /\ repeat /\ first = "nil" /\ UpsertCase(vmi)
    /\ Len(calls) = 2 /\ calls[2].res = "ok"
    /\ endpoints[req].exists

\* C5 as stated: a pass that repeats the pass before it makes no write call,
\* whatever the pass before returned.
RepeatedPassWritesNothing == repeat => WriteCalls(calls) = {}

\* C6: an API failure other than not-found is the last call of the pass and is
\* what Reconcile returns: no call follows it and the pass does not return nil.
FailureIsReturned ==
    \A k \in 1..Len(calls) :
        calls[k].res \notin {"ok", "NotFound"}
            => (k = Len(calls) /\ pc = "done" /\ ret = calls[k].res)

\* the delete call has failed and Reconcile has returned its error
DeleteFailed ==
    /\ pc = "done" /\ Len(calls) = 3
    /\ calls[3].op = "delete" /\ calls[3].res = "Error"
    /\ ret = "Error"

\* C7: on the annotation-absent branch a NotFound answer for the DNSEndpoint, to
\* the existence check or to the delete call, ends the pass without an error.
EndpointNotFoundIsSuccess ==
    (/\ pc = "done" /\ DeleteCase(vmi) /\ Len(calls) >= 2
     /\ calls[Len(calls)].kind = "DNSEndpoint"
     /\ calls[Len(calls)].res = "NotFound")
        => ret = "nil"

PassKeepsToItsKey ==
    [][calls' # calls
          => /\ \A k \in 1..Len(calls') : calls'[k].key = req'
             /\ \A id \in Identities \ {req'} : endpoints'[id] = endpoints[id]]_vars

\* a pass has written the DNSEndpoint of one VMI while another VMI has its own
PassWroteBesideAnother ==
    /\ pc = "done" /\ ret = "nil" /\ Len(calls) = 3
    /\ calls[3].op \in {"create", "update", "delete"}
    /\ \E id \in Identities \ {req} :
          /\ endpoints[id].exists
          /\ endpoints[id].owner = OwnerOf(id)
          /\ vmis[id].exists

\* the pass has read the DNSEndpoint for the upsert and found it
UpsertFound ==
    /\ pc = "upsertGet" /\ calls' # calls
    /\ calls'[Len(calls')].res = "ok"

\* C19: when the DNSEndpoint exists, holds the desired endpoints and has the VMI
\* as its controller, the pass makes no update call; it goes on to an update only
\* when the endpoints differ from the desired ones or the owner reference is not
\* the VMI's.
UpdateOnlyWhenObjectDiffers ==
    [][UpsertFound
          => /\ (/\ endpoints[req].endpoints = declaredSample[vmi]
                 /\ endpoints[req].owner = OwnerOf(req))
                   => (pc' = "done" /\ ret' = "nil")
             /\ pc' = "update"
                   => (\/ endpoints[req].endpoints # declaredSample[vmi]
                       \/ endpoints[req].owner # OwnerOf(req))]_vars

\* the pass is about to update a DNSEndpoint that holds the desired endpoints and
\* has no owner
UpdateForOwnerOnly ==
    /\ pc = "update" /\ untouched /\ ~stale
    /\ endpoints[req].exists
    /\ endpoints[req].endpoints = declaredSample[vmi]
    /\ endpoints[req].owner = NoOwner

\* C19 as stated: the pass goes on to an update only when the endpoints of the
\* DNSEndpoint differ from the desired ones.
UpdateOnlyWhenListDiffers ==
    [][(UpsertFound /\ pc' = "update")
          => endpoints[req].endpoints # declaredSample[vmi]]_vars

\* the reads of objects of a kind among the calls cs
ReadCalls(cs, kind) == {k \in 1..Len(cs) : cs[k].op = "get" /\ cs[k].kind = kind}

\* C24: a pass makes at most one write call (one create, one update or one
\* delete, so never a delete and a create or update), and before it at most one
\* read of the VirtualMachineInstance and at most one read of the DNSEndpoint:
\* the write, when there is one, is the last call of the pass.
PassWritesAtMostOnce ==
    /\ Cardinality(WriteCalls(calls)) <= 1
    /\ Cardinality(ReadCalls(calls, "VirtualMachineInstance")) <= 1
    /\ Cardinality(ReadCalls(calls, "DNSEndpoint")) <= 1
    /\ \A k \in WriteCalls(calls) : k = Len(calls) /\ pc = "done"
    /\ \A k \in 1..Len(calls) : IsWrite(calls[k]) \/ calls[k].op = "get"

\* a pass has read both objects and made one update call, which the API server
\* refused because the object had been deleted since the read
WroteOnceAndLost ==
    /\ pc = "done" /\ ret = "NotFound"
    /\ Len(calls) = 3
    /\ calls[1].op = "get" /\ calls[2].op = "get"
    /\ calls[3].op = "update" /\ calls[3].res = "NotFound"

\* the pass has ended with a Create or an Update that the API server accepted,
\* and no other client has written the object since
WroteObject ==
    /\ pc = "done" /\ untouched
    /\ Len(calls) > 0
    /\ calls[Len(calls)].op \in {"create", "update"}
    /\ calls[Len(calls)].res = "ok"

\* C25: the DNSEndpoint a pass creates or updates holds at least one endpoint,
\* whatever the value of the hostname annotation that is not blank.
WrittenObjectHasRecords ==
    WroteObject => Len(endpoints[endpointKey(req)].endpoints) >= 1

\* the call a step of the pass has made was answered without a failure
StepAnswered(step) ==
    /\ pc = step /\ pc' # step
    /\ calls'[Len(calls')].res # "Error"

\* C26: in the branch of the absent or blank hostname annotation, a DNSEndpoint
\* that exists under the name and namespace of the VirtualMachineInstance is
\* deleted whoever owns it and whatever it holds: when the read finds it the pass
\* goes on to the delete call, and the delete call removes it.
DeleteIsByIdentity ==
    [][/\ (StepAnswered("deleteGet") /\ endpoints[endpointKey(req)].exists)
             => pc' = "delete"
       /\ (StepAnswered("delete") /\ endpoints[endpointKey(req)].exists)
             => ~endpoints'[endpointKey(req)].exists]_vars

\* the pass is about to delete a DNSEndpoint that another controller owns
DeletingForeignObject ==
    /\ pc = "delete" /\ DeleteCase(vmi)
    /\ endpoints[endpointKey(req)].exists
    /\ endpoints[endpointKey(req)].owner = OtherOwner

\* the DNSEndpoint at id carries the controller reference to the VMI at id
Owned(id) == endpoints[id].exists /\ endpoints[id].owner = OwnerOf(id)

\* the DNSEndpoint at id is owned by a VirtualMachineInstance that is gone
Orphan(id) == Owned(id) /\ ~vmis[id].exists

\* a Create or an Update of the pass that the API server accepts
WriteAccepted ==
    /\ pc \in {"create", "update"}
    /\ pc' = "done" /\ ret' = "nil"

\* C13: a DNSEndpoint that a pass creates or updates carries the controller
\* reference to the VirtualMachineInstance of the request; a pass that finds the
\* VirtualMachineInstance gone makes no call on the DNSEndpoint; and with a
\* garbage collector that deletes owned objects whose owner is gone, a
\* DNSEndpoint left behind by a deleted VirtualMachineInstance is eventually
\* deleted, unless the VirtualMachineInstance comes back or another client takes
\* the object over.
OwnerLinkCascades ==
    /\ [][WriteAccepted => Owned(endpointKey(req))']_vars
    /\ []((pc = "done" /\ calls[1].res = "NotFound") => Len(calls) = 1)
    /\ \A id \in Watched :
          Orphan(id) ~> (~endpoints[id].exists \/ vmis[id].exists
                          \/ endpoints[id].owner # OwnerOf(id))

\* a pass created the DNSEndpoint, and the VirtualMachineInstance was deleted
\* after it: the object is left to the garbage collector
CreatedThenOrphaned ==
    /\ pc = "done" /\ ret = "nil" /\ untouched
    /\ calls[Len(calls)].op = "create" /\ calls[Len(calls)].res = "ok"
    /\ Orphan(req)

\* the addresses and the hostnames Reconcile takes from the sample objects
bestSample[v \in VMISamples] == extractBestIPs(v.ifaces)
namedSample[v \in VMISamples] == Len(parseHostnames(hostnameOf(v))) > 0

RecordsOf(obj, kind) ==
    {k \in 1..Len(obj.endpoints) : obj.endpoints[k].recordType = kind}

\* the A records of obj hold the IPv4 addresses, its AAAA records the IPv6
\* addresses, and there is a record for each family that has addresses
TargetsEqual(obj, best) ==
    /\ obj.exists
    /\ \A k \in RecordsOf(obj, "A") : obj.endpoints[k].targets = best.ipv4
    /\ \A k \in RecordsOf(obj, "AAAA") : obj.endpoints[k].targets = best.ipv6
    /\ (RecordsOf(obj, "A") = {}) = (best.ipv4 = <<>>)
    /\ (RecordsOf(obj, "AAAA") = {}) = (best.ipv6 = <<>>)

\* the VirtualMachineInstance at id has a hostname annotation that is not blank
\* and addresses
Publishable(id) == UpsertCase(vmis[id])

InSync(id) == Publishable(id) /\ TargetsEqual(endpoints[id], bestSample[vmis[id]])

\* the annotation of the VirtualMachineInstance at id names a hostname
Named(id) == vmis[id].exists /\ namedSample[vmis[id]]

\* another controller owns the object at the key of the DNSEndpoint
HeldByAnother(id) == alreadyOwned(endpoints[id], id)

\* C12: with events delivered through the predicate, failed passes retried and
\* no call failing for ever, whenever a VirtualMachineInstance has a hostname
\* annotation that names at least one hostname and its interface reports resolve
\* an address, eventually the targets of the A and AAAA records of its
\* DNSEndpoint are the addresses resolved from the VirtualMachineInstance as it
\* then is, or the VirtualMachineInstance has stopped being such, or the key of
\* the DNSEndpoint is held by an object another controller owns.
TargetsFollowReports ==
    \A id \in Watched :
        (Publishable(id) /\ Named(id))
            ~> (InSync(id) \/ ~(Publishable(id) /\ Named(id)) \/ HeldByAnother(id))

\* after the last change the bound allows, a pass taken from the queue has
\* updated the DNSEndpoint to the addresses of the VirtualMachineInstance as it
\* is, and the event of that write has queued the key again
TargetsUpdatedAfterChange ==
    /\ pc = "done" /\ ret = "nil" /\ untouched
    /\ calls[Len(calls)].op = "update" /\ calls[Len(calls)].res = "ok"
    /\ endpoints[req].owner = OwnerOf(req)
    /\ vmis[req] = vmi /\ InSync(req) /\ Named(req)
    /\ changes = MaxChanges
    /\ queue = {req}

\* C12 as stated: whenever a VirtualMachineInstance has a hostname annotation
\* that is not blank and its interface reports resolve an address, eventually the
\* targets of its DNSEndpoint are the resolved addresses, or the
\* VirtualMachineInstance has stopped being such.
TargetsAlwaysFollowReports ==
    \A id \in Watched :
        Publishable(id) ~> (InSync(id) \/ ~Publishable(id))

(***************************************************************************)
(* The extraction functions on their own: interface reports arrive one by  *)
(* one and the three functions are applied to the list so far.             *)
(***************************************************************************)
FnInit ==
    /\ fnIfaces = <<>>
    /\ fnOut = [ga |-> NoAddrs, multus |-> NoAddrs, best |-> bestOf(NoAddrs, NoAddrs)]
    /\ fnCall = NoCall
    /\ queue = {}
    /\ vmis = [id \in Identities |-> Absent]
    /\ endpoints = [id \in Identities |-> Absent]
    /\ changes = 0
    /\ pc = "idle"
    /\ req = CHOOSE id \in Identities : TRUE
    /\ vmi = Absent
    /\ stale = FALSE
    /\ calls = <<>>
    /\ ret = "nil"
    /\ repeat = FALSE
    /\ first = "nil"
    /\ untouched = TRUE

FnReport ==
    /\ fnCall = NoCall
    /\ Len(fnIfaces) < MaxIfaces
    /\ \E i \in IfaceSamples :
          /\ fnIfaces' = Append(fnIfaces, i)
          /\ fnOut' = extractAll(fnIfaces')
    /\ UNCHANGED <<apiVars, passVars, queue, fnCall>>

\* the objects of the watch events the predicate is tried on
FilterIface == Iface("guest-agent", "10.0.0.9", <<"192.168.1.1", "2001:db8::1">>)
FilterIfaceOtherIPs == Iface("guest-agent", "10.0.0.9", <<"192.168.1.1", "2001:db8::2">>)
FilterIfaceOtherIP == Iface("guest-agent", "10.0.0.8", <<"192.168.1.1", "2001:db8::1">>)
FilterIfaceMultus == Iface("multus-status", "10.0.0.1", <<>>)

FilterInterfaces ==
    { <<>>, <<FilterIface>>, <<FilterIfaceOtherIPs>>, <<FilterIfaceOtherIP>>,
      <<FilterIface, FilterIfaceMultus>>, <<FilterIfaceMultus, FilterIface>> }

FilterAnnotations ==
    { NoAnnotations,
      annotationHostname :> "",
      annotationHostname :> "a.test",
      annotationHostname :> "b.test",
      (annotationHostname :> "a.test") @@ (annotationTTL :> "60"),
      (annotationHostname :> "a.test") @@ ("kubevirt.io/nodeName" :> "node-1") }

\* an object that is not a VirtualMachineInstance
OtherObject == [exists |-> TRUE, kind |-> "Pod"]

FilterObjects ==
    {VMI(a, <<FilterIface>>) : a \in FilterAnnotations}
        \cup {VMI(annotationHostname :> "a.test", ifs) : ifs \in FilterInterfaces}
        \cup {OtherObject}

Called(fn, in, out) == [fn |-> fn, in |-> in, out |-> out]

\* a watch event goes through vmiChangedPredicate
FnFilter ==
    /\ fnIfaces = <<>> /\ fnCall = NoCall
    /\ \E kind \in {"create", "update", "delete", "generic"},
          old \in FilterObjects, new \in FilterObjects :
          /\ kind # "update" => old = new
          /\ fnCall' = Called("vmiChangedPredicate", <<kind, old, new>>,
                              vmiChangedPredicate(kind, old, new))
    /\ UNCHANGED <<apiVars, passVars, queue, fnIfaces, fnOut>>

\* values of the TTL annotation
TTLSamples ==
    { "", " ", "300", "60", " 60 ", "\t7\n", "0", "000", "-1", "-0", "-60", "+5",
      "007", "abc", "1.5", "6 0", "1e3", "0x10", "1_000", "--5", "+", "-", "60s",
      "2147483647", "9223372036854775808", " +09223372036854775808",
      "99999999999999999999", "-99999999999999999999" }

FnParseTTL ==
    /\ fnIfaces = <<>> /\ fnCall = NoCall
    /\ \E raw \in TTLSamples : fnCall' = Called("parseTTL", raw, parseTTL(raw))
    /\ UNCHANGED <<apiVars, passVars, queue, fnIfaces, fnOut>>

\* the tokens a hostname annotation is written from
TokenSamples == {"a.test", "b.test", "vm 1.test", " a.test ", "\tb.test", "", " ", "c.test,d.test"}

TokenLists == UNION {[1..n -> TokenSamples] : n \in 0..MaxHostnames}

\* the annotation value: the tokens with a comma between them
RECURSIVE JoinComma(_)
JoinComma(tokens) ==
    IF Len(tokens) = 0 THEN ""
    ELSE IF Len(tokens) = 1 THEN tokens[1]
    ELSE tokens[1] \o "," \o JoinComma(Tail(tokens))

FnParseHostnames ==
    /\ fnIfaces = <<>> /\ fnCall = NoCall
    /\ \E tokens \in TokenLists :
          fnCall' = Called("parseHostnames",
                           [tokens |-> tokens, raw |-> JoinComma(tokens)],
                           parseHostnames(JoinComma(tokens)))
    /\ UNCHANGED <<apiVars, passVars, queue, fnIfaces, fnOut>>

\* the arguments buildEndpoints is tried on
BuildHostnames == UNION {[1..n -> {"a.test", "b.test"}] : n \in 0..MaxHostnames}
BuildIPv4 == {<<>>, <<"10.0.0.1">>, <<"10.0.0.2", "10.0.0.1">>}
BuildIPv6 == {<<>>, <<"2001:db8::1">>}
BuildTTL == {defaultTTL, 60}

FnBuild ==
    /\ fnIfaces = <<>> /\ fnCall = NoCall
    /\ \E hostnames \in BuildHostnames, ipv4 \in BuildIPv4, ipv6 \in BuildIPv6,
          ttl \in BuildTTL :
          fnCall' = Called("buildEndpoints",
                           [hostnames |-> hostnames, ipv4 |-> ipv4, ipv6 |-> ipv6,
                            ttl |-> ttl],
                           buildEndpoints(hostnames, ipv4, ipv6, ttl))
    /\ UNCHANGED <<apiVars, passVars, queue, fnIfaces, fnOut>>

FnNext ==
    \/ FnReport
    \/ FnFilter
    \/ FnParseTTL
    \/ FnParseHostnames
    \/ FnBuild

SpecFn == FnInit /\ [][FnNext]_vars

(***************************************************************************)
(* Properties of the extraction functions.                                 *)
(***************************************************************************)
\* the elements of s at the positions in keep, in increasing position
PickSeq(s, keep) ==
    [k \in 1..Cardinality(keep) |->
        s[CHOOSE i \in keep : Cardinality({j \in keep : j <= i}) = k]]

RECURSIVE Flatten(_)
Flatten(ss) == IF Len(ss) = 0 THEN <<>> ELSE Head(ss) \o Flatten(Tail(ss))

HasToken(src, tok) ==
    \E k \in 1..Len(Split(src, ",")) : TrimSpace(Split(src, ",")[k]) = tok

ValidIP(a) == ParseIP(a) # NoIP
IsIPv4(a) == ValidIP(a) /\ To4(ParseIP(a)) # <<>>
IsIPv6(a) == ValidIP(a) /\ To4(ParseIP(a)) = <<>>
\* an IPv6 address whose first ten bits are 1111111010
InFE80(a) == IsIPv6(a) /\ ParseIP(a)[1] = 254 /\ ParseIP(a)[2] \in 128..191
GlobalIPv6(a) == IsIPv6(a) /\ ~InFE80(a)

AnyAddr(r) == Len(r.ipv4) + Len(r.ipv6) > 0
Tagged(r, tag) == [ipv4 |-> r.ipv4, ipv6 |-> r.ipv6, source |-> tag]

gaCandidates(ifaces) ==
    LET sel == {i \in 1..Len(ifaces) : HasToken(ifaces[i].infoSource, "guest-agent")}
        lists == PickSeq([i \in 1..Len(ifaces) |-> ifaces[i].ips], sel)
        all == Flatten(lists)
    IN  [k \in 1..Len(all) |-> TrimSpace(all[k])]

\* C9: extractGuestAgentIPs never returns an address in fe80::/10; the other valid
\* addresses are kept, in their original order.
GuestAgentDropsLinkLocal ==
    /\ \A k \in 1..Len(fnOut.ga.ipv4) : ~InFE80(fnOut.ga.ipv4[k])
    /\ \A k \in 1..Len(fnOut.ga.ipv6) : ~InFE80(fnOut.ga.ipv6[k])
    /\ fnOut.ga.ipv4 = SelectSeq(gaCandidates(fnIfaces), IsIPv4)
    /\ fnOut.ga.ipv6 = SelectSeq(gaCandidates(fnIfaces), GlobalIPv6)

\* a guest-agent interface lists a link-local address between valid ones
GuestAgentSawLinkLocal ==
    /\ \E k \in 2..(Len(gaCandidates(fnIfaces)) - 1) :
          /\ InFE80(gaCandidates(fnIfaces)[k])
          /\ ValidIP(gaCandidates(fnIfaces)[k - 1])
          /\ ValidIP(gaCandidates(fnIfaces)[k + 1])
    /\ AnyAddr(fnOut.ga)

\* the trimmed iface.IP of the multus-status interfaces with a valid one, in order
multusCandidates(ifaces) ==
    LET sel == {i \in 1..Len(ifaces) :
                   /\ HasToken(ifaces[i].infoSource, "multus-status")
                   /\ ValidIP(TrimSpace(ifaces[i].ip))}
    IN  PickSeq([i \in 1..Len(ifaces) |-> TrimSpace(ifaces[i].ip)], sel)

\* C10: extractMultusIPs returns, in interface order and without deduplication,
\* the trimmed primary address of every interface that has the exact token
\* "multus-status" and a valid primary address; the address list is not read and
\* link-local addresses are kept.
MultusTakesPrimaryOnly ==
    /\ fnOut.multus.ipv4 = SelectSeq(multusCandidates(fnIfaces), IsIPv4)
    /\ fnOut.multus.ipv6 = SelectSeq(multusCandidates(fnIfaces), IsIPv6)

\* two multus-status interfaces report the same link-local primary address, with
\* an address list that holds other addresses
MultusKeptLinkLocal ==
    /\ Len(fnOut.multus.ipv6) = 2
    /\ InFE80(fnOut.multus.ipv6[1])
    /\ fnOut.multus.ipv6[1] = fnOut.multus.ipv6[2]
    /\ \A i \in 1..Len(fnIfaces) : fnIfaces[i].ips # <<>>

(***************************************************************************)
(* Properties of vmiChangedPredicate.                                      *)
(***************************************************************************)
\* the value of the hostname annotation, "" when there is none
HostnameValue(obj) ==
    IF annotationHostname \in DOMAIN obj.annotations
    THEN obj.annotations[annotationHostname] ELSE ""

\* two interface lists differ: in length, or in a field of some position
ReportsDiffer(a, b) ==
    \/ Len(a) # Len(b)
    \/ \E i \in 1..Len(a) :
          \/ a[i].infoSource # b[i].infoSource
          \/ a[i].ip # b[i].ip
          \/ a[i].ips # b[i].ips

FilterCalled == fnCall.fn = "vmiChangedPredicate"
FilterKind == fnCall.in[1]
FilterOld == fnCall.in[2]
FilterNew == fnCall.in[3]

\* C11: the predicate lets every create, delete and generic event through, and
\* every update whose old or new object is not a VirtualMachineInstance; an update
\* between two VirtualMachineInstances goes through if and only if the value of
\* the hostname annotation differs or the interface lists differ.
FilterPassesRelevantEvents ==
    FilterCalled =>
        /\ FilterKind # "update" => fnCall.out = TRUE
        /\ FilterKind = "update" /\ (FilterOld = OtherObject \/ FilterNew = OtherObject)
              => fnCall.out = TRUE
        /\ FilterKind = "update" /\ FilterOld # OtherObject /\ FilterNew # OtherObject
              => fnCall.out = (\/ HostnameValue(FilterOld) # HostnameValue(FilterNew)
                               \/ ReportsDiffer(FilterOld.ifaces, FilterNew.ifaces))

\* an update that only swaps two interface reports goes through
FilterSawReorderedReports ==
    /\ FilterCalled /\ FilterKind = "update"
    /\ FilterOld # OtherObject /\ FilterNew # OtherObject
    /\ FilterOld.annotations = FilterNew.annotations
    /\ Len(FilterOld.ifaces) = 2
    /\ FilterNew.ifaces = <<FilterOld.ifaces[2], FilterOld.ifaces[1]>>
    /\ FilterOld.ifaces # FilterNew.ifaces
    /\ fnCall.out = TRUE

\* the predicate has held back an update between two VirtualMachineInstances
FilterSuppressed ==
    /\ FilterCalled /\ FilterKind = "update"
    /\ FilterOld # OtherObject /\ FilterNew # OtherObject
    /\ fnCall.out = FALSE

\* C23: when the predicate holds back an update, the endpoints Reconcile computes
\* from the new VirtualMachineInstance (names, record types, targets and TTL) are
\* those it computes from the old one.
SuppressedUpdatesAreIrrelevant ==
    FilterSuppressed => desiredEndpoints(FilterNew) = desiredEndpoints(FilterOld)

(***************************************************************************)
(* Properties of parseTTL.                                                 *)
(***************************************************************************)
\* the decimal numeral of a natural number
RECURSIVE Numeral(_)
Numeral(n) ==
    IF n < 10 THEN At("0123456789", n + 1)
    ELSE Numeral(n \div 10) \o At("0123456789", (n % 10) + 1)

AllDigits(s) == Len(s) > 0 /\ \A i \in 1..Len(s) : At(s, i) \in DecDigits

\* s without its leading zeros (one zero is left of a string of zeros)
RECURSIVE Canonical(_)
Canonical(s) == IF Len(s) > 1 /\ At(s, 1) = "0" THEN Canonical(From(s, 2)) ELSE s

\* s, whitespace around it aside, is a decimal numeral with an optional sign
Unsigned(s) == IF Len(s) > 0 /\ At(s, 1) \in {"+", "-"} THEN From(s, 2) ELSE s
IsInteger(s) == AllDigits(Unsigned(TrimSpace(s)))
IsNegative(s) == Len(TrimSpace(s)) > 0 /\ At(TrimSpace(s), 1) = "-"
\* the numeral, without sign and leading zeros, of the integer s denotes
Magnitude(s) == Canonical(Unsigned(TrimSpace(s)))

TTLCalled == fnCall.fn = "parseTTL"

\* C15: parseTTL returns a positive integer for every string: the integer the
\* string denotes when that is positive (and within 18 digits), and 300 for the
\* empty string, for a string that is no integer, for zero and for a negative
\* integer.
ParseTTLIsTotal ==
    TTLCalled =>
        /\ fnCall.out \in Nat /\ fnCall.out > 0
        /\ fnCall.out # defaultTTL => Numeral(fnCall.out) = Magnitude(fnCall.in)
        /\ (/\ IsInteger(fnCall.in) /\ ~IsNegative(fnCall.in)
            /\ Magnitude(fnCall.in) # "0" /\ Len(Magnitude(fnCall.in)) <= 18)
              => Numeral(fnCall.out) = Magnitude(fnCall.in)
        /\ (\/ ~IsInteger(fnCall.in) \/ IsNegative(fnCall.in)
            \/ Magnitude(fnCall.in) = "0")
              => fnCall.out = defaultTTL

\* a negative TTL is replaced by the default
ParseTTLSawNegative ==
    /\ TTLCalled /\ fnCall.in = "-1" /\ fnCall.out = 300

\* s denotes a positive integer
PositiveNumeral(s) == IsInteger(s) /\ ~IsNegative(s) /\ Magnitude(s) # "0"

\* the numeral m, which has no leading zero, is above the largest int64
AboveInt64(m) ==
    \/ Len(m) > Len(MaxInt64Digits)
    \/ Len(m) = Len(MaxInt64Digits) /\ DigitsGreater(m, MaxInt64Digits)

\* C22: parseTTL returns the integer a string denotes for every positive
\* integer up to the largest int64, whatever its magnitude below that; for a
\* positive integer above the largest int64 it returns the default.
ParseTTLPassesInt64 ==
    (TTLCalled /\ PositiveNumeral(fnCall.in))
        => IF AboveInt64(Magnitude(fnCall.in))
           THEN fnCall.out = defaultTTL
           ELSE Numeral(fnCall.out) = Magnitude(fnCall.in)

\* the integer after the largest int64 is replaced by the default
ParseTTLSawAboveInt64 ==
    /\ TTLCalled /\ fnCall.in = "9223372036854775808" /\ fnCall.out = defaultTTL

\* C22 as stated: parseTTL returns the integer a string denotes for every
\* positive integer, whatever its magnitude.
ParseTTLPassesEveryPositive ==
    (TTLCalled /\ PositiveNumeral(fnCall.in))
        => Numeral(fnCall.out) = Magnitude(fnCall.in)

(***************************************************************************)
(* Properties of parseHostnames.                                           *)
(***************************************************************************)
Blank(c) == c \in {" ", "\t", "\n", "\r"}

\* t is s without the whitespace at its two ends
IsTrimOf(t, s) ==
    \E i \in 1..(Len(s) + 1), j \in 0..Len(s) :
        /\ t = SubSeq(s, i, j)
        /\ \A k \in 1..(i - 1) : Blank(At(s, k))
        /\ \A k \in (j + 1)..Len(s) : Blank(At(s, k))
        /\ i <= j => ~Blank(At(s, i)) /\ ~Blank(At(s, j))
        /\ i > j => \A k \in 1..Len(s) : Blank(At(s, k))

Substrings(s) == {SubSeq(s, i, j) : i \in 1..(Len(s) + 1), j \in 0..Len(s)}
TrimOf(s) == CHOOSE t \in Substrings(s) : IsTrimOf(t, s)

\* the stretches of s between its commas, in order
Pieces(s) ==
    LET cuts == {0, Len(s) + 1} \cup {i \in 1..Len(s) : At(s, i) = ","}
        starts == cuts \ {Len(s) + 1}
        nextCut(c) == CHOOSE d \in cuts : d > c /\ \A e \in cuts : e > c => d <= e
        nth(k) == CHOOSE c \in starts : Cardinality({e \in starts : e <= c}) = k
    IN  [k \in 1..Cardinality(starts) |-> SubSeq(s, nth(k) + 1, nextCut(nth(k)) - 1)]

NonEmpty(t) == t # ""

\* a hostname: not empty, no comma, no whitespace at its ends
ValidHostname(t) ==
    /\ t # ""
    /\ \A k \in 1..Len(t) : At(t, k) # ","
    /\ ~Blank(At(t, 1)) /\ ~Blank(At(t, Len(t)))

HostnamesCalled == fnCall.fn = "parseHostnames"

\* C16: parseHostnames returns, in order, the trimmed non-empty stretches between
\* the commas of its argument; for a non-empty list of hostnames (each non-empty,
\* without comma and without whitespace at its ends) joined by commas it returns
\* the list; for the empty string it returns the empty list.
ParseHostnamesInvertsJoin ==
    HostnamesCalled =>
        /\ fnCall.out = SelectSeq([k \in 1..Len(Pieces(fnCall.in.raw)) |->
                                     TrimOf(Pieces(fnCall.in.raw)[k])], NonEmpty)
        /\ (/\ fnCall.in.tokens # <<>>
            /\ \A k \in 1..Len(fnCall.in.tokens) : ValidHostname(fnCall.in.tokens[k]))
              => fnCall.out = fnCall.in.tokens
        /\ fnCall.in.raw = "" => fnCall.out = <<>>

\* two hostnames, not in alphabetical order, come back as they were joined
ParseHostnamesSawList ==
    /\ HostnamesCalled
    /\ fnCall.in.tokens = <<"vm 1.test", "a.test">>
    /\ fnCall.in.raw = "vm 1.test,a.test"
    /\ fnCall.out = fnCall.in.tokens

(***************************************************************************)
(* Properties of buildEndpoints.                                           *)
(***************************************************************************)
BuildCalled == fnCall.fn = "buildEndpoints"

\* C17: every endpoint buildEndpoints returns has at least one target, whatever
\* the hostnames, the two address lists and the TTL.
BuildEmitsNoEmptyTargets ==
    BuildCalled => \A k \in 1..Len(fnCall.out) : Len(fnCall.out[k].targets) >= 1

\* two hostnames with IPv6 addresses only: one record each, none without targets
BuildSawEmptyFamily ==
    /\ BuildCalled
    /\ Len(fnCall.in.hostnames) = 2
    /\ fnCall.in.ipv4 = <<>> /\ fnCall.in.ipv6 # <<>>
    /\ Len(fnCall.out) = 2

\* 1 for a list of addresses that is not empty, 0 for the empty list
Family(targets) == IF Len(targets) > 0 THEN 1 ELSE 0

\* the records of the k-th hostname are at the places after Offset(k)
Offset(k, ipv4, ipv6) == (k - 1) * (Family(ipv4) + Family(ipv6))

\* out is hostname-major and record-kind-minor for the given arguments
HostnameMajor(out, hostnames, ipv4, ipv6, ttl) ==
    /\ Len(out) = Len(hostnames) * (Family(ipv4) + Family(ipv6))
    /\ \A k \in 1..Len(hostnames) :
          /\ Family(ipv4) = 1
                => out[Offset(k, ipv4, ipv6) + 1]
                     = Endpoint(hostnames[k], "A", ipv4, ttl)
          /\ Family(ipv6) = 1
                => out[Offset(k, ipv4, ipv6) + Family(ipv4) + 1]
                     = Endpoint(hostnames[k], "AAAA", ipv6, ttl)

\* C21: for hostnames h1..hn buildEndpoints returns, hostname after hostname in
\* the order given, one A record with the whole IPv4 list iff that list is not
\* empty, followed by one AAAA record with the whole IPv6 list iff that list is
\* not empty, each with the given TTL; the number of records is n times the
\* number of lists that are not empty, and none when both lists are empty.
BuildIsHostnameMajor ==
    BuildCalled
        => /\ HostnameMajor(fnCall.out, fnCall.in.hostnames, fnCall.in.ipv4,
                            fnCall.in.ipv6, fnCall.in.ttl)
           /\ (fnCall.in.ipv4 = <<>> /\ fnCall.in.ipv6 = <<>>) => fnCall.out = <<>>

\* two different hostnames, two IPv4 addresses and an IPv6 address: four records
BuildSawBothFamilies ==
    /\ BuildCalled
    /\ Len(fnCall.in.hostnames) = 2
    /\ fnCall.in.hostnames[1] # fnCall.in.hostnames[2]
    /\ Len(fnCall.in.ipv4) = 2 /\ Len(fnCall.in.ipv6) = 1
    /\ Len(fnCall.out) = 4
    /\ fnCall.out[2].recordType = "AAAA" /\ fnCall.out[3].recordType = "A"

(***************************************************************************)
(* Properties of the addresses Reconcile publishes.                        *)
(***************************************************************************)
\* every target of an A record is an IPv4 address, of an AAAA record an IPv6 one
WellFormedTargets(eps) ==
    \A k \in 1..Len(eps) :
        /\ eps[k].recordType \in {"A", "AAAA"}
        /\ eps[k].recordType = "A"
              => \A t \in 1..Len(eps[k].targets) : IsIPv4(eps[k].targets[t])
        /\ eps[k].recordType = "AAAA"
              => \A t \in 1..Len(eps[k].targets) : IsIPv6(eps[k].targets[t])

\* WellFormedTargets of what Reconcile computes for the sample objects
wellFormedSample[v \in VMISamples] == WellFormedTargets(desiredOfSample[v])

WellFormed(eps) ==
    IF \E v \in VMISamples : desiredOfSample[v] = eps
    THEN \A v \in VMISamples : desiredOfSample[v] = eps => wellFormedSample[v]
    ELSE WellFormedTargets(eps)

\* an entry of the address lists of v that is empty or no IP address
Malformed(a) == ~ValidIP(TrimSpace(a))
HasMalformed(v) ==
    \E i \in 1..Len(v.ifaces) :
        \/ Malformed(v.ifaces[i].ip)
        \/ \E k \in 1..Len(v.ifaces[i].ips) : Malformed(v.ifaces[i].ips[k])
malformedSample[v \in VMISamples] == HasMalformed(v)

\* C20: in every DNSEndpoint Reconcile has written, the targets of an A record
\* parse as IPv4 addresses and the targets of an AAAA record as IPv6 addresses,
\* so no empty or unparsable entry of the interface reports is among them; and
\* when Reconcile returns an error it is the failure of its last API call or the
\* refusal to take over an object another controller owns, never an address.
PublishedAddressesAreValid ==
    /\ \A id \in Identities :
          (endpoints[id].exists /\ endpoints[id].owner = OwnerOf(id))
              => WellFormed(endpoints[id].endpoints)
    /\ (pc = "done" /\ ret # "nil")
          => (calls[Len(calls)].res # "ok" \/ ret = "AlreadyOwned")

\* a pass has published the addresses of a VMI whose reports also hold an empty
\* and an unparsable entry, and returned nil
PublishedDespiteMalformed ==
    /\ pc = "done" /\ ret = "nil" /\ untouched /\ UpsertCase(vmi)
    /\ malformedSample[vmi]
    /\ calls[Len(calls)].op = "create" /\ calls[Len(calls)].res = "ok"
    /\ \E k \in 1..Len(endpoints[req].endpoints) :
          endpoints[req].endpoints[k].recordType = "AAAA"

====
